---- MODULE Spec2Model ----
(***************************************************************************)
(* walk_the_dog: the character typestate machine (RedHatBoyStateMachine),  *)
(* the game phase machine (WalkTheDogStateMachine) and the Walk aggregate. *)
(***************************************************************************)
EXTENDS Integers, Sequences, FiniteSets, TLC

(***************************************************************************)
(* Program constants (src/src/game.rs)                                     *)
(***************************************************************************)
HEIGHT == 600
FLOOR == 479
PLAYER_HEIGHT == HEIGHT - FLOOR
STARTING_POINT == -20
IDLE_FRAMES == 29
RUNNING_FRAMES == 23
RUNNING_SPEED == 3
SLIDING_FRAMES == 14
JUMPING_FRAMES == 12
JUMP_SPEED == -25
FALLING_FRAMES == 29
TERMINAL_VELOCITY == 20
GRAVITY == 1

(***************************************************************************)
(* Bounds of the model                                                     *)
(***************************************************************************)
\* the history counter of consecutive Update events saturates here
MaxTicks == 60
\* a platform top used as the argument of Land besides the ground (HEIGHT)
LandTop == 420

LandPositions == {HEIGHT, LandTop}

(***************************************************************************)
(* Events                                                                  *)
(***************************************************************************)
Ev(t) == [type |-> t, position |-> 0]
Land(y) == [type |-> "Land", position |-> y]

Event == {Ev("Run"), Ev("Slide"), Ev("Update"), Ev("KnockOut"), Ev("Jump")}
           \cup {Land(y) : y \in LandPositions}

(***************************************************************************)
(* RedHatBoyContext.  The field audio records what the play_sound request  *)
(* made through the context's audio handle while an event was dispatched   *)
(* came to: "none" (no request), "played", or "failed" (error logged).     *)
(***************************************************************************)
\* mutant: the frame counter compared with <=, so it runs one past the limit
RedHatBoyContext_update_past_limit(c, frame_count) ==
    LET f  == IF c.frame <= frame_count THEN c.frame + 1 ELSE 0
        vy == IF c.velocity.y < TERMINAL_VELOCITY
                THEN c.velocity.y + GRAVITY ELSE c.velocity.y
        py == c.position.y + vy
    IN  [c EXCEPT !.frame = f,
                  !.velocity.y = vy,
                  !.position.y = IF py > FLOOR THEN FLOOR ELSE py]

\* mutant: gravity applied at the terminal velocity as well
RedHatBoyContext_update_no_cap(c, frame_count) ==
    LET f  == IF c.frame < frame_count THEN c.frame + 1 ELSE 0
        vy == c.velocity.y + GRAVITY
        py == c.position.y + vy
    IN  [c EXCEPT !.frame = f,
                  !.velocity.y = vy,
                  !.position.y = IF py > FLOOR THEN FLOOR ELSE py]

\* mutant: the clamp to the floor left out
RedHatBoyContext_update_no_floor(c, frame_count) ==
    LET f  == IF c.frame < frame_count THEN c.frame + 1 ELSE 0
        vy == IF c.velocity.y < TERMINAL_VELOCITY
                THEN c.velocity.y + GRAVITY ELSE c.velocity.y
    IN  [c EXCEPT !.frame = f,
                  !.velocity.y = vy,
                  !.position.y = c.position.y + vy]

RedHatBoyContext_update(c, frame_count) ==
    LET f  == IF c.frame < frame_count THEN c.frame + 1 ELSE 0
        vy == IF c.velocity.y < TERMINAL_VELOCITY
                THEN c.velocity.y + GRAVITY ELSE c.velocity.y
        py == c.position.y + vy
    IN  [c EXCEPT !.frame = f,
                  !.velocity.y = vy,
                  !.position.y = IF py > FLOOR THEN FLOOR ELSE py]

reset_frame(c) == [c EXCEPT !.frame = 0]

run_right(c) == [c EXCEPT !.velocity.x = @ + RUNNING_SPEED]

set_vertical_velocity(c, y) == [c EXCEPT !.velocity.y = y]

stop(c) == [c EXCEPT !.velocity = [x |-> 0, y |-> 0]]

\* mutant: the character's head, not its feet, put at the position
set_on_head(c, position) == [c EXCEPT !.position.y = position]

set_on(c, position) == [c EXCEPT !.position.y = position - PLAYER_HEIGHT]

\* mutant: a failed playback calls the jump off
play_jump_sound_or_stay(c, audio_ok) ==
    IF audio_ok THEN [c EXCEPT !.audio = "played"]
    ELSE [c EXCEPT !.audio = "failed", !.velocity.y = 0]

play_jump_sound(c, audio_ok) ==
    [c EXCEPT !.audio = IF audio_ok THEN "played" ELSE "failed"]

(***************************************************************************)
(* RedHatBoyState<S>: a context and the state tag                          *)
(***************************************************************************)
St(tag, c) == [state |-> tag, context |-> c]

Idle_new ==
    St("Idle", [frame |-> 0,
                position |-> [x |-> STARTING_POINT, y |-> FLOOR],
                velocity |-> [x |-> 0, y |-> 0],
                audio |-> "none"])

Idle_run(s) == St("Running", run_right(reset_frame(s.context)))

Idle_update(s) == St("Idle", RedHatBoyContext_update(s.context, IDLE_FRAMES))

Running_update(s) == St("Running", RedHatBoyContext_update(s.context, RUNNING_FRAMES))

Running_slide(s) == St("Sliding", reset_frame(s.context))

Running_jump(s, audio_ok) ==
    St("Jumping",
       play_jump_sound(set_vertical_velocity(reset_frame(s.context), JUMP_SPEED),
                       audio_ok))

\* Running::land_on, Sliding::land_on and Jumping::land_on have the same body
land_on(s, position) == St("Running", set_on(reset_frame(s.context), position))

\* Running::knock_out, Sliding::knock_out and Jumping::knock_out have the same body
knock_out(s) == St("Falling", stop(reset_frame(s.context)))

Sliding_stand(s) == St("Running", reset_frame(s.context))

\* mutant: the slide completes one frame early
Sliding_update_early(s) ==
    LET u == St("Sliding", RedHatBoyContext_update(s.context, SLIDING_FRAMES))
    IN  IF u.context.frame >= SLIDING_FRAMES - 1 THEN Sliding_stand(u) ELSE u

Sliding_update(s) ==
    LET u == St("Sliding", RedHatBoyContext_update(s.context, SLIDING_FRAMES))
    IN  IF u.context.frame >= SLIDING_FRAMES THEN Sliding_stand(u) ELSE u

\* mutant: landing only past the floor, which the clamp never lets happen
Jumping_update_past_floor(s) ==
    LET u == St("Jumping", RedHatBoyContext_update(s.context, JUMPING_FRAMES))
    IN  IF u.context.position.y > FLOOR THEN land_on(u, HEIGHT) ELSE u

Jumping_update(s) ==
    LET u == St("Jumping", RedHatBoyContext_update(s.context, JUMPING_FRAMES))
    IN  IF u.context.position.y >= FLOOR THEN land_on(u, HEIGHT) ELSE u

Falling_knock_out(s) == St("KnockOut", s.context)

\* mutant: the fall completes one frame early
Falling_update_early(s) ==
    LET u == St("Falling", RedHatBoyContext_update(s.context, FALLING_FRAMES))
    IN  IF u.context.frame >= FALLING_FRAMES - 1 THEN Falling_knock_out(u) ELSE u

Falling_update(s) ==
    LET u == St("Falling", RedHatBoyContext_update(s.context, FALLING_FRAMES))
    IN  IF u.context.frame >= FALLING_FRAMES THEN Falling_knock_out(u) ELSE u

\* mutant: Update ticks the context of every state, KnockOut included
transition_update_any(m, event, audio_ok) ==
    CASE m.state = "Idle"    /\ event.type = "Run"      -> Idle_run(m)
      [] m.state = "Running" /\ event.type = "Jump"     -> Running_jump(m, audio_ok)
      [] m.state = "Running" /\ event.type = "Slide"    -> Running_slide(m)
      [] m.state = "Running" /\ event.type = "KnockOut" -> knock_out(m)
      [] m.state = "Running" /\ event.type = "Land"     -> land_on(m, event.position)
      [] m.state = "Jumping" /\ event.type = "Land"     -> land_on(m, event.position)
      [] m.state = "Jumping" /\ event.type = "KnockOut" -> knock_out(m)
      [] m.state = "Sliding" /\ event.type = "KnockOut" -> knock_out(m)
      [] m.state = "Sliding" /\ event.type = "Land"     -> land_on(m, event.position)
      [] m.state = "Idle"    /\ event.type = "Update"   -> Idle_update(m)
      [] m.state = "Running" /\ event.type = "Update"   -> Running_update(m)
      [] m.state = "Jumping" /\ event.type = "Update"   -> Jumping_update(m)
      [] m.state = "Sliding" /\ event.type = "Update"   -> Sliding_update(m)
      [] m.state = "Falling" /\ event.type = "Update"   -> Falling_update(m)
      [] m.state = "KnockOut" /\ event.type = "Update"  ->
            St("KnockOut", RedHatBoyContext_update(m.context, FALLING_FRAMES))
      [] OTHER -> m

(***************************************************************************)
(* RedHatBoyStateMachine::transition                                       *)
(***************************************************************************)
transition(m, event, audio_ok) ==
    CASE m.state = "Idle"    /\ event.type = "Run"      -> Idle_run(m)
      [] m.state = "Running" /\ event.type = "Jump"     -> Running_jump(m, audio_ok)
      [] m.state = "Running" /\ event.type = "Slide"    -> Running_slide(m)
      [] m.state = "Running" /\ event.type = "KnockOut" -> knock_out(m)
      [] m.state = "Running" /\ event.type = "Land"     -> land_on(m, event.position)
      [] m.state = "Jumping" /\ event.type = "Land"     -> land_on(m, event.position)
      [] m.state = "Jumping" /\ event.type = "KnockOut" -> knock_out(m)
      [] m.state = "Sliding" /\ event.type = "KnockOut" -> knock_out(m)
      [] m.state = "Sliding" /\ event.type = "Land"     -> land_on(m, event.position)
      [] m.state = "Idle"    /\ event.type = "Update"   -> Idle_update(m)
      [] m.state = "Running" /\ event.type = "Update"   -> Running_update(m)
      [] m.state = "Jumping" /\ event.type = "Update"   -> Jumping_update(m)
      [] m.state = "Sliding" /\ event.type = "Update"   -> Sliding_update(m)
      [] m.state = "Falling" /\ event.type = "Update"   -> Falling_update(m)
      [] OTHER -> m

\* mutant: a falling character already counts as knocked out
knocked_out_or_falling(m) == m.state \in {"KnockOut", "Falling"}

knocked_out(m) == m.state = "KnockOut"

\* the machine a RedHatBoy stores: what the dispatch did to the audio handle
\* is kept apart (variable sound), the stored handle itself is unchanged
Silent(m) == [m EXCEPT !.context.audio = "none"]

(***************************************************************************)
(* Geometry (src/src/engine.rs)                                            *)
(***************************************************************************)
Point(x, y) == [x |-> x, y |-> y]

new_from_x_y(x, y, width, height) ==
    [position |-> Point(x, y), width |-> width, height |-> height]

right(r) == r.position.x + r.width

bottom(r) == r.position.y + r.height

\* mutant: closed intervals, rectangles that touch along an edge intersect
intersects_closed(a, b) ==
    /\ a.position.x <= right(b)
    /\ right(a) >= b.position.x
    /\ a.position.y <= bottom(b)
    /\ bottom(a) >= b.position.y

intersects(a, b) ==
    /\ a.position.x < right(b)
    /\ right(a) > b.position.x
    /\ a.position.y < bottom(b)
    /\ bottom(a) > b.position.y

set_x(r, x) == [r EXCEPT !.position.x = x]

\* Image: the element's size and its place, i.e. its bounding_box
Image_new(element, position) ==
    [position |-> position, width |-> element.width, height |-> element.height]

Image_move_horizontally(image, distance) == set_x(image, image.position.x + distance)

(***************************************************************************)
(* Assets.  The images and the sprite sheet are data loaded at start-up;   *)
(* the model fixes their sizes.                                            *)
(***************************************************************************)
\* BG.png, narrow: the two tiles cycle with a short period
background == [width |-> 9, height |-> HEIGHT]

stone == [width |-> 89, height |-> 54]

\* rhb.json: every cell of the character's sheet is taken to be of one size
rhb_cell == [frame |-> [w |-> 71, h |-> 115],
             sprite_source_size |-> [x |-> 58, y |-> 8]]

frame_label(m) ==
    CASE m.state = "Idle"    -> "Idle"
      [] m.state = "Running" -> "Run"
      [] m.state = "Sliding" -> "Slide"
      [] m.state = "Jumping" -> "Jump"
      [] OTHER               -> "Dead"

\* RedHatBoy::frame_name: the label and the 1-based sprite index
frame_name(m) == <<frame_label(m), (m.context.frame \div 3) + 1>>

current_sprite(m) == rhb_cell

destination_box(m) ==
    LET sprite == current_sprite(m)
    IN  new_from_x_y(m.context.position.x + sprite.sprite_source_size.x,
                     m.context.position.y + sprite.sprite_source_size.y,
                     sprite.frame.w, sprite.frame.h)

bounding_box(m) ==
    LET d == destination_box(m)
    IN  new_from_x_y(d.position.x + 18, d.position.y + 14, d.width - 28, d.height - 14)

(***************************************************************************)
(* State                                                                   *)
(***************************************************************************)
VARIABLES
    phase,          \* the live variant of WalkTheDogStateMachine
    boy,            \* walk.boy.state_machine, the one live RedHatBoyStateMachine
    backgrounds,    \* walk.backgrounds: the bounding boxes of the two tiles
    obstacles,      \* walk.obstacles
    timeline,       \* walk.timeline
    keystate,       \* KeyState.pressed_keys: the codes of the keys held
    ui,             \* the children of the UI container
    new_game_event, \* activations queued in GameOver's receiver
    sound,          \* what the play_sound request of the last step came to
    ev,             \* the events dispatched to the character in the last step
    hist,           \* history: how the character got where it is
    rect_args,      \* the two rectangles a call of Rect::intersects is given
    rect_ret,       \* what a.intersects(b) and b.intersects(a) returned
    machine,        \* WalkTheDog.machine is Some
    game_loop,      \* the GameLoop: last_frame and accumulated_delta
    run,            \* GameLoop::start and its frame callback: where they are
    canvas,         \* what the calls of the last draw put on the canvas
    load            \* one call of load_image: its channel and its callbacks

vars == <<phase, boy, backgrounds, obstacles, timeline, keystate, ui,
          new_game_event, sound, ev, hist, rect_args, rect_ret,
          machine, game_loop, run, canvas, load>>

\* what lies around the game: the loop that drives it, the canvas, a loader
host == <<machine, game_loop, run, canvas, load>>

\* the variables of the call of Rect::intersects on its own
rect_call == <<rect_args, rect_ret>>

world == <<phase, backgrounds, obstacles, timeline, keystate, ui, new_game_event,
           rect_call>>

Min(a, b) == IF a < b THEN a ELSE b

\* hist.entered: the state tag right after the last event other than Update
\*   that changed the machine; hist.by that event, hist.from the tag before it,
\*   hist.floor whether the character stood on the floor then, hist.vx its
\*   horizontal velocity then;
\*   hist.direct whether it was the first event dispatched in its step (a
\*   method of RedHatBoy called on its own: Walking's update dispatches
\*   Update before any Land or KnockOut of a collision);
\* hist.n: Update events dispatched since (saturating at MaxTicks);
\* hist.done: how many of those Updates changed the state tag.
hist_new == [entered |-> "Idle", by |-> "new", from |-> "Idle", direct |-> TRUE,
             floor |-> TRUE, vx |-> 0, n |-> 0, done |-> 0]

\* One event dispatched to the stored machine (RedHatBoy::update, run_right,
\* slide, jump, knock_out, land_on all do
\*     self.state_machine = self.state_machine.clone().transition(event) )
Dispatched(t, event, audio_ok) ==
    LET r == transition(t.m, event, audio_ok)
        m == Silent(r)
    IN  [m     |-> m,
         sound |-> IF r.context.audio # "none" THEN r.context.audio ELSE t.sound,
         ev    |-> Append(t.ev, event),
         h     |-> IF event.type = "Update"
                     THEN [t.h EXCEPT !.n = Min(@ + 1, MaxTicks),
                                      !.done = IF m.state # t.m.state
                                                 THEN Min(@ + 1, 2) ELSE @]
                   ELSE IF m # t.m
                     THEN [entered |-> m.state, by |-> event.type,
                           from |-> t.m.state,
                           direct |-> t.ev = <<>>,
                           floor |-> t.m.context.position.y = FLOOR,
                           vx |-> t.m.context.velocity.x,
                           n |-> 0, done |-> 0]
                   ELSE t.h]

\* the character as a step finds it: nothing dispatched, nothing played yet
Tracked == [m |-> boy, sound |-> "none", ev |-> <<>>, h |-> hist]

Store(t) ==
    /\ boy' = t.m
    /\ sound' = t.sound
    /\ ev' = t.ev
    /\ hist' = t.h

(***************************************************************************)
(* Obstacles (src/src/game.rs)                                             *)
(***************************************************************************)
Platform_new(position, bounding_boxes) ==
    [kind |-> "Platform",
     position |-> position,
     bounding_boxes |->
        [i \in 1..Len(bounding_boxes) |->
            new_from_x_y(bounding_boxes[i].position.x + position.x,
                         bounding_boxes[i].position.y + position.y,
                         bounding_boxes[i].width, bounding_boxes[i].height)]]

Barrier_new(image) == [kind |-> "Barrier", image |-> image]

\* the first bounding box, in sequence order, the character's box intersects
\* (0: none)
find_box(boxes, m) ==
    LET hit == {i \in 1..Len(boxes) : intersects(bounding_box(m), boxes[i])}
    IN  IF hit = {} THEN 0 ELSE CHOOSE i \in hit : \A j \in hit : i <= j

\* mutant: the character lands from any height, also from below the anchor
Platform_check_intersection_any_height(o, t) ==
    LET i == find_box(o.bounding_boxes, t.m)
    IN  IF i = 0 THEN t
        ELSE IF t.m.context.velocity.y > 0
               THEN Dispatched(t, Land(o.bounding_boxes[i].position.y), TRUE)
               ELSE Dispatched(t, Ev("KnockOut"), TRUE)

Platform_check_intersection(o, t) ==
    LET i == find_box(o.bounding_boxes, t.m)
    IN  IF i = 0 THEN t
        ELSE IF t.m.context.velocity.y > 0 /\ t.m.context.position.y < o.position.y
               THEN Dispatched(t, Land(o.bounding_boxes[i].position.y), TRUE)
               ELSE Dispatched(t, Ev("KnockOut"), TRUE)

\* mutant: a character falling onto the barrier from above lands on it
Barrier_check_intersection_landable(o, t) ==
    IF intersects(bounding_box(t.m), o.image)
      THEN IF t.m.context.velocity.y > 0 /\ t.m.context.position.y < o.image.position.y
             THEN Dispatched(t, Land(o.image.position.y), TRUE)
             ELSE Dispatched(t, Ev("KnockOut"), TRUE)
      ELSE t

Barrier_check_intersection(o, t) ==
    IF intersects(bounding_box(t.m), o.image)
      THEN Dispatched(t, Ev("KnockOut"), TRUE)
      ELSE t

check_intersection(o, t) ==
    IF o.kind = "Platform" THEN Platform_check_intersection(o, t)
                           ELSE Barrier_check_intersection(o, t)

Platform_right(o) ==
    IF Len(o.bounding_boxes) = 0 THEN 0
    ELSE right(o.bounding_boxes[Len(o.bounding_boxes)])

\* mutant: the right edge of the barrier's image
Barrier_right_of_image(o) == right(o.image)

Barrier_right(o) == 250

Obstacle_right(o) == IF o.kind = "Platform" THEN Platform_right(o) ELSE Barrier_right(o)

move_horizontally(o, x) ==
    IF o.kind = "Platform"
      THEN [o EXCEPT !.position.x = @ + x,
                     !.bounding_boxes =
                        [i \in 1..Len(o.bounding_boxes) |->
                            set_x(o.bounding_boxes[i],
                                  o.bounding_boxes[i].position.x + x)]]
      ELSE [o EXCEPT !.image = Image_move_horizontally(@, x)]

Max(S) == CHOOSE x \in S : \A y \in S : y <= x

rightmost(obstacle_list) ==
    IF Len(obstacle_list) = 0 THEN 0
    ELSE Max({Obstacle_right(obstacle_list[i]) : i \in 1..Len(obstacle_list)})

(***************************************************************************)
(* Segments: the two layouts generate_next_segment and Walk::reset place.  *)
(***************************************************************************)
FLOATING_PLATFORM_BOUNDING_BOXES ==
    <<new_from_x_y(0, 0, 60, 54),
      new_from_x_y(60, 0, 384 - (60 * 2), 93),
      new_from_x_y(384 - 60, 0, 60, 54)>>

create_floating_platform(position) ==
    Platform_new(position, FLOATING_PLATFORM_BOUNDING_BOXES)

stone_and_platform(offset_x) ==
    <<Barrier_new(Image_new(stone, Point(offset_x + 150, 546))),
      create_floating_platform(Point(offset_x + 370, 420))>>

platform_and_stone(offset_x) ==
    <<create_floating_platform(Point(offset_x + 200, 375)),
      Barrier_new(Image_new(stone, Point(offset_x + 400, 546)))>>

(***************************************************************************)
(* Walk                                                                    *)
(***************************************************************************)
TIMELINE_MINIMUM == 1000
OBSTACLE_BUFFER == 20

\* the obstacle sequence may hold this many obstacles
MaxObstacles == 4
\* the receiver of the new-game button may queue this many activations
MaxClicks == 2

Walk_velocity(m) == -m.context.velocity.x

\* mutant: the segment placed at the timeline itself, without the buffer
generate_next_segment_no_buffer(w, next_segment) ==
    LET next_obstacles ==
            CASE next_segment = 0 -> stone_and_platform(w.timeline)
              [] next_segment = 1 -> platform_and_stone(w.timeline)
              [] OTHER -> <<>>
    IN  [w EXCEPT !.timeline = rightmost(next_obstacles),
                  !.obstacles = @ \o next_obstacles]

\* next_segment is the number drawn from 0..2 (exclusive)
generate_next_segment(w, next_segment) ==
    LET next_obstacles ==
            CASE next_segment = 0 -> stone_and_platform(w.timeline + OBSTACLE_BUFFER)
              [] next_segment = 1 -> platform_and_stone(w.timeline + OBSTACLE_BUFFER)
              [] OTHER -> <<>>
    IN  [w EXCEPT !.timeline = rightmost(next_obstacles),
                  !.obstacles = @ \o next_obstacles]

\* mutant: a segment is generated also when the timeline is at the minimum
advance_timeline_at_minimum(w, walking_speed, next_segment) ==
    IF w.timeline <= TIMELINE_MINIMUM
      THEN generate_next_segment(w, next_segment)
      ELSE [w EXCEPT !.timeline = @ + walking_speed]

\* the end of a Walking tick: a new segment, or the timeline scrolled
advance_timeline(w, walking_speed, next_segment) ==
    IF w.timeline < TIMELINE_MINIMUM
      THEN generate_next_segment(w, next_segment)
      ELSE [w EXCEPT !.timeline = @ + walking_speed]

\* browser::draw_ui and browser::hide_ui on the children of the UI container
draw_ui(children, html) == <<html>> \o children

hide_ui(children) == <<>>

InitGame ==
    /\ phase = "Ready"
    /\ boy = Idle_new
    /\ backgrounds = <<Image_new(background, Point(0, 0)),
                       Image_new(background, Point(background.width, 0))>>
    /\ obstacles = stone_and_platform(0)
    /\ timeline = rightmost(stone_and_platform(0))
    /\ keystate = {}
    /\ ui = <<>>
    /\ new_game_event = 0
    /\ sound = "none"
    /\ ev = <<>>
    /\ hist = hist_new

Rect_default == new_from_x_y(0, 0, 0, 0)

\* GameLoop { last_frame: now, accumulated_delta: 0.0 }
GameLoop_new(now) == [last_frame |-> now, accumulated_delta |-> 0]

\* GameLoop::start was not called: no frame is requested, no callback runs
run_new == [started |-> "new", error |-> "none", instance |-> FALSE,
            pc |-> "idle", frames |-> 0, perf |-> 0, added |-> 0, calls |-> <<>>]

\* no call of load_image is under way
load_new == [source |-> "none", tx |-> "None", rx |-> "none", sent |-> <<>>,
             fired |-> <<>>, result |-> "pending", panicked |-> FALSE]

\* the game initialized and running, seen between two frame callbacks
InitHost ==
    /\ machine = TRUE
    /\ game_loop = GameLoop_new(0)
    /\ run = [run_new EXCEPT !.started = "running"]
    /\ canvas = <<>>
    /\ load = load_new

Init ==
    /\ InitGame
    /\ rect_args = <<Rect_default, Rect_default>>
    /\ rect_ret = <<>>
    /\ InitHost

(***************************************************************************)
(* The character driven directly through RedHatBoy's methods               *)
(***************************************************************************)
RedHatBoy_update ==
    /\ Store(Dispatched(Tracked, Ev("Update"), TRUE))
    /\ UNCHANGED world

RedHatBoy_run_right ==
    /\ Store(Dispatched(Tracked, Ev("Run"), TRUE))
    /\ UNCHANGED world

RedHatBoy_slide ==
    /\ Store(Dispatched(Tracked, Ev("Slide"), TRUE))
    /\ UNCHANGED world

RedHatBoy_jump ==
    /\ \E audio_ok \in BOOLEAN : Store(Dispatched(Tracked, Ev("Jump"), audio_ok))
    /\ UNCHANGED world

RedHatBoy_knock_out ==
    /\ Store(Dispatched(Tracked, Ev("KnockOut"), TRUE))
    /\ UNCHANGED world

RedHatBoy_land_on ==
    /\ \E y \in LandPositions : Store(Dispatched(Tracked, Land(y), TRUE))
    /\ UNCHANGED world

NextBoy ==
    /\ \/ RedHatBoy_update
       \/ RedHatBoy_run_right
       \/ RedHatBoy_slide
       \/ RedHatBoy_jump
       \/ RedHatBoy_knock_out
       \/ RedHatBoy_land_on
    /\ UNCHANGED host

SpecBoy == Init /\ [][NextBoy]_vars

(***************************************************************************)
(* The game phase machine (WalkTheDogStateMachine::update)                 *)
(***************************************************************************)
is_pressed(code) == code \in keystate

\* obstacles.iter_mut().for_each: each obstacle in turn is moved and then
\* checked against the character as the earlier obstacles left it
RECURSIVE move_and_check(_, _, _, _)
move_and_check(obs, i, velocity, t) ==
    IF i > Len(obs) THEN [obstacles |-> obs, t |-> t]
    ELSE LET moved == move_horizontally(obs[i], velocity)
         IN  move_and_check([obs EXCEPT ![i] = moved], i + 1, velocity,
                            check_intersection(moved, t))

\* mutant: the first tile is put at the right edge the second tile had before
\* it was moved
move_backgrounds_stale(bgs, walking_speed) ==
    LET first1  == Image_move_horizontally(bgs[1], walking_speed)
        second1 == Image_move_horizontally(bgs[2], walking_speed)
        first2  == IF right(first1) < 0 THEN set_x(first1, right(bgs[2])) ELSE first1
        second2 == IF right(second1) < 0 THEN set_x(second1, right(first2)) ELSE second1
    IN  <<Image_move_horizontally(first2, walking_speed),
          Image_move_horizontally(second2, walking_speed)>>

\* the two background tiles of one Walking tick
move_backgrounds(bgs, walking_speed) ==
    LET first1  == Image_move_horizontally(bgs[1], walking_speed)
        second1 == Image_move_horizontally(bgs[2], walking_speed)
        first2  == IF right(first1) < 0 THEN set_x(first1, right(second1)) ELSE first1
        second2 == IF right(second1) < 0 THEN set_x(second1, right(first2)) ELSE second1
    IN  <<Image_move_horizontally(first2, walking_speed),
          Image_move_horizontally(second2, walking_speed)>>

\* mutant: an obstacle whose right edge is at the origin is kept
retain_at_origin(obs) == SelectSeq(obs, LAMBDA o : Obstacle_right(o) >= 0)

retain(obs) == SelectSeq(obs, LAMBDA o : Obstacle_right(o) > 0)

\* mutant: Run issued before the tick
Ready_update_run_first ==
    /\ phase = "Ready"
    /\ IF is_pressed("ArrowRight")
         THEN /\ Store(Dispatched(Dispatched(Tracked, Ev("Run"), TRUE),
                                  Ev("Update"), TRUE))
              /\ phase' = "Walking"
         ELSE /\ Store(Dispatched(Tracked, Ev("Update"), TRUE))
              /\ phase' = "Ready"
    /\ UNCHANGED <<backgrounds, obstacles, timeline, keystate, ui, new_game_event,
                   rect_call>>

Ready_update ==
    /\ phase = "Ready"
    /\ LET ticked == Dispatched(Tracked, Ev("Update"), TRUE)
       IN  IF is_pressed("ArrowRight")
             THEN /\ Store(Dispatched(ticked, Ev("Run"), TRUE))
                  /\ phase' = "Walking"
             ELSE /\ Store(ticked)
                  /\ phase' = "Ready"
    /\ UNCHANGED <<backgrounds, obstacles, timeline, keystate, ui, new_game_event,
                   rect_call>>

\* mutant: Space makes the character slide
Walking_key_slide(t, audio_ok) ==
    IF is_pressed("Space") THEN Dispatched(t, Ev("Slide"), audio_ok) ELSE t

\* the key a Walking tick reads: Space makes the character jump
Walking_key(t, audio_ok) ==
    IF is_pressed("Space") THEN Dispatched(t, Ev("Jump"), audio_ok) ELSE t

\* One Walking tick.  segments: the numbers the generator may draw;
\* limit: how many obstacles the sequence may hold.
Walking_tick(segments, limit) ==
    /\ phase = "Walking"
    /\ timeline < TIMELINE_MINIMUM => Len(retain(obstacles)) + 2 <= limit
    /\ \E audio_ok \in (IF is_pressed("Space") THEN BOOLEAN ELSE {TRUE}),
          next_segment \in (IF timeline < TIMELINE_MINIMUM THEN segments ELSE {0}) :
        \* (\E over a singleton: the value is computed once)
        \E ticked \in {Dispatched(Walking_key(Tracked, audio_ok), Ev("Update"), TRUE)} :
        \E checked \in {move_and_check(retain(obstacles), 1,
                                       Walk_velocity(ticked.m), ticked)} :
        LET walking_speed == Walk_velocity(ticked.m)
            w == [obstacles |-> checked.obstacles, timeline |-> timeline]
            generated == advance_timeline(w, walking_speed, next_segment)
        IN  /\ backgrounds' = move_backgrounds(backgrounds, walking_speed)
            /\ obstacles' = generated.obstacles
            /\ timeline' = generated.timeline
            /\ Store(checked.t)
            /\ IF knocked_out(checked.t.m)
                 THEN \* end_game
                      /\ phase' = "GameOver"
                      /\ ui' = draw_ui(ui, "new_game")
                      /\ new_game_event' = 0
                 ELSE /\ phase' = "Walking"
                      /\ UNCHANGED <<ui, new_game_event>>
    /\ UNCHANGED <<keystate, rect_call>>

Walking_update == Walking_tick(0..1, MaxObstacles)

\* mutant: the first activation queued is dropped
new_game_pressed_second == new_game_event > 1

new_game_pressed == new_game_event > 0

\* mutant: new_game hands the walk on as it is, without Walk::reset
GameOver_update_keep_walk ==
    /\ phase = "GameOver"
    /\ IF new_game_pressed
         THEN /\ phase' = "Ready"
              /\ ui' = hide_ui(ui)
              /\ new_game_event' = 0
              /\ UNCHANGED <<boy, hist, obstacles, timeline>>
         ELSE /\ UNCHANGED <<phase, ui, boy, hist, obstacles, timeline, new_game_event>>
    /\ sound' = "none"
    /\ ev' = <<>>
    /\ UNCHANGED <<backgrounds, keystate, rect_call>>

\* mutant: new_game leaves the button in the UI container
GameOver_update_keep_ui ==
    /\ phase = "GameOver"
    /\ IF new_game_pressed
         THEN /\ phase' = "Ready"
              /\ boy' = Idle_new
              /\ hist' = hist_new
              /\ obstacles' = stone_and_platform(0)
              /\ timeline' = rightmost(stone_and_platform(0))
              /\ new_game_event' = 0
              /\ UNCHANGED ui
         ELSE /\ UNCHANGED <<phase, ui, boy, hist, obstacles, timeline, new_game_event>>
    /\ sound' = "none"
    /\ ev' = <<>>
    /\ UNCHANGED <<backgrounds, keystate, rect_call>>

GameOver_update ==
    /\ phase = "GameOver"
    /\ IF new_game_pressed
         THEN \* new_game: hide_ui and Walk::reset
              /\ phase' = "Ready"
              /\ ui' = hide_ui(ui)
              /\ boy' = Idle_new
              /\ hist' = hist_new
              /\ obstacles' = stone_and_platform(0)
              /\ timeline' = rightmost(stone_and_platform(0))
              /\ new_game_event' = 0
         ELSE /\ UNCHANGED <<phase, ui, boy, hist, obstacles, timeline, new_game_event>>
    /\ sound' = "none"
    /\ ev' = <<>>
    /\ UNCHANGED <<backgrounds, keystate, rect_call>>

\* the click handler add_click_handler installs on the button
on_click ==
    /\ Len(ui) > 0
    /\ new_game_event < MaxClicks
    /\ new_game_event' = new_game_event + 1
    /\ UNCHANGED <<phase, boy, backgrounds, obstacles, timeline, keystate, ui,
                   sound, ev, hist, rect_call>>

KeyCodes == {"ArrowRight", "Space"}

\* a keydown, a keyup of one of the keys in codes
set_pressed_in(codes) ==
    /\ \E code \in codes \ keystate : keystate' = keystate \cup {code}
    /\ UNCHANGED <<phase, boy, backgrounds, obstacles, timeline, ui,
                   new_game_event, sound, ev, hist, rect_call>>

set_released_in(codes) ==
    /\ \E code \in codes \cap keystate : keystate' = keystate \ {code}
    /\ UNCHANGED <<phase, boy, backgrounds, obstacles, timeline, ui,
                   new_game_event, sound, ev, hist, rect_call>>

set_pressed == set_pressed_in(KeyCodes)

set_released == set_released_in(KeyCodes)

Next ==
    /\ \/ Ready_update
       \/ Walking_update
       \/ GameOver_update
       \/ on_click
       \/ set_pressed
       \/ set_released
    /\ UNCHANGED host

Spec == Init /\ [][Next]_vars

(***************************************************************************)
(* The game with one more key on the keyboard, ArrowDown, that no phase    *)
(* reads                                                                   *)
(***************************************************************************)
keydown_any == set_pressed_in(KeyCodes \cup {"ArrowDown"})

keyup_any == set_released_in(KeyCodes \cup {"ArrowDown"})

NextKeys ==
    /\ \/ Ready_update
       \/ Walking_update
       \/ GameOver_update
       \/ on_click
       \/ keydown_any
       \/ keyup_any
    /\ UNCHANGED host

SpecKeys == Init /\ [][NextKeys]_vars

(***************************************************************************)
(* The game with a driver that may knock the character out directly        *)
(* (RedHatBoy::knock_out) between two updates                              *)
(***************************************************************************)
\* the driver acts within this many ticks of the start of an animation cycle
ForcedFrames == 2

forced_knock_out ==
    /\ phase = "Walking"
    /\ boy.context.frame < ForcedFrames
    /\ RedHatBoy_knock_out

NextForced == Next \/ (forced_knock_out /\ UNCHANGED host)

SpecForced == Init /\ [][NextForced]_vars

(***************************************************************************)
(* A long walk: the game as above, followed along the draws of the         *)
(* generator that place a platform before a stone (next_segment = 1), far  *)
(* enough for platforms to reach the origin.  The player presses           *)
(* ArrowRight and holds it, and presses and releases Space at will.        *)
(***************************************************************************)
\* the obstacle sequence of a long walk may hold this many obstacles
MaxLongObstacles == 8

Walking_update_long == Walking_tick({1}, MaxLongObstacles)

hold_ArrowRight == set_pressed_in({"ArrowRight"})

press_Space == set_pressed_in({"Space"})

release_Space == set_released_in({"Space"})

NextLong ==
    /\ \/ Ready_update
       \/ Walking_update_long
       \/ GameOver_update
       \/ on_click
       \/ hold_ArrowRight
       \/ press_Space
       \/ release_Space
    /\ UNCHANGED host

SpecLong == Init /\ [][NextLong]_vars

(***************************************************************************)
(* One Walking tick from a drawn situation: a character in the air or on   *)
(* the ground and one obstacle next to it, so that the collision check     *)
(* meets every case (no overlap, touching, first or later box, from above, *)
(* from below).                                                            *)
(***************************************************************************)
BoyStates == {"Running", "Jumping", "Sliding", "Falling"}
BoyYs == {280, 296, 297, 330, 400, 440, FLOOR}
BoyVys == {-10, -1, 0, TERMINAL_VELOCITY}

Boys ==
    {St(tag, [frame |-> 0,
              position |-> Point(STARTING_POINT, y),
              velocity |-> Point(IF tag = "Falling" THEN 0 ELSE RUNNING_SPEED, vy),
              audio |-> "none"]) :
        tag \in BoyStates, y \in BoyYs, vy \in BoyVys}

\* a platform whose outer boxes lie lower than its middle box
SteppedBoxes ==
    <<new_from_x_y(0, 30, 60, 54),
      new_from_x_y(60, 0, 384 - (60 * 2), 93),
      new_from_x_y(384 - 60, 30, 60, 54)>>

PlatformXs == {-330, -4, 13, 39, 99, 102}
PlatformYs == {375, 420}
StoneXs == {-40, 12, 101, 102}

Platforms ==
    {Platform_new(Point(x, y), boxes) :
        x \in PlatformXs, y \in PlatformYs,
        boxes \in {FLOATING_PLATFORM_BOUNDING_BOXES, SteppedBoxes}}

Barriers == {Barrier_new(Image_new(stone, Point(x, 546))) : x \in StoneXs}

InitCollide ==
    /\ phase = "Walking"
    /\ boy \in Boys
    /\ backgrounds = <<Image_new(background, Point(0, 0)),
                       Image_new(background, Point(background.width, 0))>>
    /\ obstacles \in {<<o>> : o \in Platforms \cup Barriers}
    /\ timeline = TIMELINE_MINIMUM
    /\ keystate \in {{}, {"Space"}}
    /\ ui = <<>>
    /\ new_game_event = 0
    /\ sound = "none"
    /\ ev = <<>>
    /\ hist = [hist_new EXCEPT !.entered = boy.state, !.by = "drawn", !.n = MaxTicks]
    /\ rect_args = <<Rect_default, Rect_default>>
    /\ rect_ret = <<>>
    /\ InitHost

\* the one tick of the drawn situation
Walking_update_once ==
    /\ ev = <<>>
    /\ Walking_tick(0..1, MaxObstacles)

NextCollide == Walking_update_once /\ UNCHANGED host

SpecCollide == InitCollide /\ [][NextCollide]_vars

(***************************************************************************)
(* Rect::intersects called on its own, on rectangles of non-negative size  *)
(***************************************************************************)
\* coordinates run from -1 to MaxCoord, widths and heights from 0 to MaxSize
MaxCoord == 2
MaxSize == 2

Coords == -1..MaxCoord

Rects == {new_from_x_y(x, y, w, h) : x \in Coords, y \in Coords,
                                     w \in 0..MaxSize, h \in 0..MaxSize}

InitRect ==
    /\ InitGame
    /\ rect_args \in Rects \X Rects
    /\ rect_ret = <<>>
    /\ InitHost

Rect_intersects ==
    /\ rect_ret = <<>>
    /\ rect_ret' = <<intersects(rect_args[1], rect_args[2]),
                     intersects(rect_args[2], rect_args[1])>>
    /\ UNCHANGED <<phase, boy, backgrounds, obstacles, timeline, keystate, ui,
                   new_game_event, sound, ev, hist, rect_args>>

NextRect == Rect_intersects /\ UNCHANGED host

SpecRect == InitRect /\ [][NextRect]_vars

(***************************************************************************)
(* One Update of a drawn character: any state that handles Update, at,     *)
(* above or below the floor, rising or falling, at the start or the end of *)
(* its animation.                                                          *)
(***************************************************************************)
TickBoys ==
    {St(tag, [frame |-> f,
              position |-> Point(x, y),
              velocity |-> Point(vx, vy),
              audio |-> "none"]) :
        tag \in {"Idle", "Running", "Jumping", "Sliding", "Falling"},
        f \in {0, SLIDING_FRAMES, FALLING_FRAMES},
        x \in {STARTING_POINT, 100},
        y \in {-100, FLOOR - TERMINAL_VELOCITY - 1, FLOOR - TERMINAL_VELOCITY,
               FLOOR - 1, FLOOR, FLOOR + 1, FLOOR - JUMP_SPEED, HEIGHT + 100},
        vx \in {0, RUNNING_SPEED},
        vy \in {JUMP_SPEED, -1, 0, TERMINAL_VELOCITY - 1, TERMINAL_VELOCITY}}

InitTick ==
    /\ phase = "Walking"
    /\ boy \in TickBoys
    /\ backgrounds = <<Image_new(background, Point(0, 0)),
                       Image_new(background, Point(background.width, 0))>>
    /\ obstacles = stone_and_platform(0)
    /\ timeline = rightmost(stone_and_platform(0))
    /\ keystate = {}
    /\ ui = <<>>
    /\ new_game_event = 0
    /\ sound = "none"
    /\ ev = <<>>
    /\ hist = [hist_new EXCEPT !.entered = boy.state, !.by = "drawn",
                               !.floor = boy.context.position.y <= FLOOR]
    /\ rect_args = <<Rect_default, Rect_default>>
    /\ rect_ret = <<>>
    /\ InitHost

\* the one tick of the drawn character
RedHatBoy_update_once ==
    /\ ev = <<>>
    /\ RedHatBoy_update

NextTick == RedHatBoy_update_once /\ UNCHANGED host

SpecTick == InitTick /\ [][NextTick]_vars

(***************************************************************************)
(* Drawing (src/src/game.rs, src/src/engine.rs).  The canvas is modelled   *)
(* as the sequence of the calls that reach it: what is drawn (of) and      *)
(* where (at).                                                             *)
(***************************************************************************)
Renderer_clear(rect) == [op |-> "clear", of |-> <<"canvas">>, at |-> rect]

Image_draw(image, name) ==
    [op |-> "draw_entire_image", of |-> name,
     at |-> new_from_x_y(image.position.x, image.position.y, image.width, image.height)]

RedHatBoy_draw(m) ==
    [op |-> "draw_image", of |-> <<"boy">> \o frame_name(m), at |-> destination_box(m)]

Obstacle_draw(o, i) ==
    IF o.kind = "Barrier"
      THEN Image_draw(o.image, <<"obstacle", i>>)
      ELSE [op |-> "draw_image", of |-> <<"obstacle", i>>,
            at |-> new_from_x_y(o.position.x, o.position.y, 0, 0)]

\* mutant: the character is drawn over the obstacles
Walk_draw_boy_last(w) ==
    [i \in 1..Len(w.backgrounds) |-> Image_draw(w.backgrounds[i], <<"background", i>>)]
    \o [i \in 1..Len(w.obstacles) |-> Obstacle_draw(w.obstacles[i], i)]
    \o <<RedHatBoy_draw(w.boy)>>

Walk_draw(w) ==
    [i \in 1..Len(w.backgrounds) |-> Image_draw(w.backgrounds[i], <<"background", i>>)]
    \o <<RedHatBoy_draw(w.boy)>>
    \o [i \in 1..Len(w.obstacles) |-> Obstacle_draw(w.obstacles[i], i)]

\* the walk of the live phase: every phase draws it the same way
walk == [boy |-> boy, backgrounds |-> backgrounds, obstacles |-> obstacles]

WalkTheDog_draw ==
    <<Renderer_clear(new_from_x_y(0, 0, 600, 600))>>
    \o (IF machine THEN Walk_draw(walk) ELSE <<>>)

game == <<phase, boy, backgrounds, obstacles, timeline, keystate, ui,
          new_game_event, sound, ev, hist, rect_call>>

(***************************************************************************)
(* The game, drawn once at any moment; also a game that was never          *)
(* initialized (WalkTheDog::new: machine is None).                         *)
(***************************************************************************)
InitDraw ==
    /\ InitGame
    /\ rect_args = <<Rect_default, Rect_default>>
    /\ rect_ret = <<>>
    /\ machine \in BOOLEAN
    /\ game_loop = GameLoop_new(0)
    /\ run = IF machine THEN [run_new EXCEPT !.started = "running"] ELSE run_new
    /\ canvas = <<>>
    /\ load = load_new

Game_draw ==
    /\ canvas = <<>>
    /\ canvas' = WalkTheDog_draw
    /\ UNCHANGED <<game, machine, game_loop, run, load>>

NextDraw ==
    \/ canvas = <<>> /\ machine /\ Next
    \/ Game_draw

SpecDraw == InitDraw /\ [][NextDraw]_vars

(***************************************************************************)
(* Game::update called directly, on an initialized game and on one that    *)
(* was never initialized                                                   *)
(***************************************************************************)
\* mutant: update of a game without a machine returns quietly
WalkTheDog_update_unset_quiet ==
    /\ ~machine
    /\ run.calls = <<>>
    /\ run' = [run EXCEPT !.calls = <<"update">>]
    /\ UNCHANGED <<game, machine, game_loop, canvas, load>>

\* Game::update with machine None: take() gives nothing to update, and the
\* assertion fails
WalkTheDog_update_unset ==
    /\ ~machine
    /\ run.calls = <<>>
    /\ run' = [run EXCEPT !.calls = <<"update">>,
                          !.error = "assertion failed: self.machine.is_some()"]
    /\ UNCHANGED <<game, machine, game_loop, canvas, load>>

NextGame ==
    \/ machine /\ Next
    \/ WalkTheDog_update_unset

SpecGame == InitDraw /\ [][NextGame]_vars

(***************************************************************************)
(* The game loop (src/src/engine.rs).  Time is counted in units of         *)
(* 2^-18 ms from the moment GameLoop::start reads the clock.  FRAME_SIZE,  *)
(* the f32 nearest to 1/60*1000 ms, is 4369067 of these units; an f32      *)
(* holds every whole number of units below 2^24 and rounds above.          *)
(***************************************************************************)
FRAME_SIZE == 4369067

\* the spacing of the f32 values around v, v >= 0
RECURSIVE ulp(_)
ulp(v) == IF v < 16777216 THEN 1 ELSE 2 * ulp(v \div 2)

\* v as f32: the nearest value an f32 holds, ties to the even mantissa
f32(v) ==
    LET q == ulp(v)
        lo == (v \div q) * q
    IN  IF 2 * (v - lo) < q THEN lo
        ELSE IF 2 * (v - lo) > q THEN lo + q
        ELSE IF (lo \div q) % 2 = 0 THEN lo ELSE lo + q

\* a behaviour runs this many frame callbacks
MaxFrames == 2
\* a callback comes up to this many steps after the one before
MaxSteps == 4

\* the time between two callbacks: a whole number of steps, one unit less or
\* one unit more
FrameTimes == {k * FRAME_SIZE + d : k \in 0..MaxSteps, d \in -1..1} \ {-1}

\* mutant: a game that is already initialized is initialized again
WalkTheDog_initialize_again(m, assets_ok) ==
    IF ~assets_ok
      THEN [ok |-> FALSE, error |-> "asset load failed", machine |-> m]
      ELSE [ok |-> TRUE, error |-> "none", machine |-> TRUE]

\* Game::initialize: the outcome, and machine of the instance the caller
\* holds afterwards
WalkTheDog_initialize(m, assets_ok) ==
    IF m
      THEN [ok |-> FALSE, error |-> "Error: Game is already initialized!",
            machine |-> m]
      ELSE IF ~assets_ok
        THEN [ok |-> FALSE, error |-> "asset load failed", machine |-> m]
        ELSE [ok |-> TRUE, error |-> "none", machine |-> TRUE]

\* Game::update of WalkTheDog on a game whose machine is present
WalkTheDog_update ==
    /\ machine
    /\ \/ Ready_update
       \/ Walking_update
       \/ GameOver_update

\* GameLoop::start, up to the first request_animation_frame.  The Walk that
\* initialize builds is the one the game variables hold from the start.
GameLoop_start ==
    /\ run.started = "new"
    /\ \E input_ok \in BOOLEAN, assets_ok \in BOOLEAN, browser_ok \in BOOLEAN :
         LET made == WalkTheDog_initialize(machine, assets_ok)
             error == IF ~input_ok THEN "prepare_input failed"
                      ELSE IF ~made.ok THEN made.error
                      ELSE IF ~browser_ok THEN "browser call failed"
                      ELSE "none"
         IN  /\ run' = [run EXCEPT
                          !.started = IF error = "none" THEN "running" ELSE "failed",
                          !.error = error,
                          !.instance = input_ok /\ made.ok]
             /\ machine' = IF input_ok THEN made.machine ELSE machine
             /\ game_loop' = IF input_ok /\ made.ok THEN GameLoop_new(0) ELSE game_loop
    /\ UNCHANGED <<game, canvas, load>>

\* the frame callback, up to the loop: process_input (the key events of the
\* time between two callbacks are set_pressed and set_released there), then
\* the elapsed time added to the accumulator
frame_begin ==
    /\ run.started = "running"
    /\ run.pc = "idle"
    /\ run.frames < MaxFrames
    /\ \E frame_time \in FrameTimes :
         LET accumulated == f32(game_loop.accumulated_delta + f32(frame_time))
         IN  /\ game_loop' = [game_loop EXCEPT !.accumulated_delta = accumulated]
             /\ run' = [run EXCEPT !.pc = "loop", !.frames = @ + 1,
                                   !.perf = game_loop.last_frame + frame_time,
                                   !.added = accumulated, !.calls = <<>>]
    /\ UNCHANGED <<game, machine, canvas, load>>

\* one turn of the while loop
frame_update ==
    /\ run.pc = "loop"
    /\ game_loop.accumulated_delta > FRAME_SIZE
    /\ WalkTheDog_update
    /\ game_loop' = [game_loop EXCEPT
                       !.accumulated_delta = f32(@ - FRAME_SIZE)]
    /\ run' = [run EXCEPT !.calls = Append(@, "update")]
    /\ UNCHANGED <<machine, canvas, load>>

\* the end of the callback: draw, and the next frame requested
frame_draw ==
    /\ run.pc = "loop"
    /\ ~(game_loop.accumulated_delta > FRAME_SIZE)
    /\ game_loop' = [game_loop EXCEPT !.last_frame = run.perf]
    /\ canvas' = WalkTheDog_draw
    /\ run' = [run EXCEPT !.pc = "idle", !.calls = Append(@, "draw")]
    /\ UNCHANGED <<game, machine, load>>

\* a key goes down between two callbacks
keydown ==
    /\ run.started = "running"
    /\ run.pc = "idle"
    /\ set_pressed
    /\ UNCHANGED host

InitLoop ==
    /\ InitGame
    /\ rect_args = <<Rect_default, Rect_default>>
    /\ rect_ret = <<>>
    /\ machine \in BOOLEAN
    /\ game_loop = GameLoop_new(0)
    /\ run = run_new
    /\ canvas = <<>>
    /\ load = load_new

NextLoop ==
    \/ GameLoop_start
    \/ frame_begin
    \/ frame_update
    \/ frame_draw
    \/ keydown

SpecLoop == InitLoop /\ [][NextLoop]_vars

(***************************************************************************)
(* One call of load_image (src/src/engine.rs): the oneshot channel, the    *)
(* sender shared by the two callbacks in an Option, and the callbacks the  *)
(* image element runs, in any order and any number of times.               *)
(***************************************************************************)
\* the image element runs this many callbacks after src is set
MaxCallbacks == 4

\* the images initialize loads
Sources == {"rhb.png", "BG.png", "Stone.png", "tiles.png"}

\* load_image up to set_src: the channel is open and the sender is shared
load_image ==
    /\ load.source = "none"
    /\ \E source \in Sources :
         load' = [load_new EXCEPT !.source = source, !.tx = "Some", !.rx = "empty"]
    /\ UNCHANGED <<game, machine, game_loop, run, canvas>>

\* mutant: the sender is left in the Option
Option_peek(l) == [some |-> l.tx = "Some", l |-> l]

\* lock().ok().and_then(|mut opt| opt.take())
Option_take(l) == [some |-> l.tx = "Some", l |-> [l EXCEPT !.tx = "None"]]

\* Sender::send(value).expect(..): an error, and so a panic, when the
\* receiver is gone
Sender_send(l, value) ==
    IF l.rx = "closed" THEN [l EXCEPT !.panicked = TRUE]
    ELSE [l EXCEPT !.rx = value, !.sent = Append(@, value)]

\* the body the two callbacks share
callback(l, value) ==
    LET taken == Option_take(l)
    IN  IF taken.some THEN Sender_send(taken.l, value) ELSE taken.l

\* browser::closure_once: the image element calling the closure runs its body
closure_once(l, name, body) == [body EXCEPT !.fired = Append(l.fired, name)]

success_callback ==
    /\ load.source # "none"
    /\ Len(load.fired) < MaxCallbacks
    /\ load' = closure_once(load, "onload", callback(load, "Ok"))
    /\ UNCHANGED <<game, machine, game_loop, run, canvas>>

error_callback ==
    /\ load.source # "none"
    /\ Len(load.fired) < MaxCallbacks
    /\ load' = closure_once(load, "onerror", callback(load, "Err"))
    /\ UNCHANGED <<game, machine, game_loop, run, canvas>>

\* complete_rx.await??: the future resumes once a result is in the channel
complete_rx_await ==
    /\ load.result = "pending"
    /\ load.rx \in {"Ok", "Err"}
    /\ load' = [load EXCEPT !.result = IF load.rx = "Ok" THEN "image" ELSE "error",
                            !.rx = "closed"]
    /\ UNCHANGED <<game, machine, game_loop, run, canvas>>

InitLoad ==
    /\ InitGame
    /\ rect_args = <<Rect_default, Rect_default>>
    /\ rect_ret = <<>>
    /\ machine = FALSE
    /\ game_loop = GameLoop_new(0)
    /\ run = run_new
    /\ canvas = <<>>
    /\ load = load_new

NextLoad ==
    \/ load_image
    \/ success_callback
    \/ error_callback
    \/ complete_rx_await

SpecLoad == InitLoad /\ [][NextLoad]_vars

(***************************************************************************)
(* Properties                                                              *)
(***************************************************************************)
StateTags == {"Idle", "Running", "Sliding", "Jumping", "Falling", "KnockOut"}

\* the (state, event) pairs the transition table names
InTable(state, type) ==
    \/ state = "Idle" /\ type = "Run"
    \/ state = "Running" /\ type \in {"Jump", "Slide", "KnockOut", "Land"}
    \/ state = "Jumping" /\ type \in {"Land", "KnockOut"}
    \/ state = "Sliding" /\ type \in {"KnockOut", "Land"}
    \/ state \in {"Idle", "Running", "Jumping", "Sliding", "Falling"} /\ type = "Update"

\* a step that dispatched exactly the event e to the character
Received(e) == ev' = <<e>>

pos == boy.context.position
vel == boy.context.velocity
frame == boy.context.frame

\* C1: transition is total, and every (state, event) pair outside the table
\* returns the same variant with the same context and plays no sound.
C1_Absorbed ==
    [][\A e \in Event :
          Received(e) =>
            /\ boy'.state \in StateTags
            /\ ~InTable(boy.state, e.type) => boy' = boy /\ sound' = "none"]_vars

C1_Witness ==
    /\ boy.state = "Jumping"
    /\ frame > 0
    /\ ev = <<Ev("Slide")>>

\* C2: KnockOut is terminal: no event changes the variant or the context of a
\* knocked-out character, and none plays a sound.
C2_Terminal ==
    [][boy.state = "KnockOut" /\ (\E e \in Event : Received(e))
          => boy' = boy /\ sound' = "none"]_vars

C2_Witness ==
    /\ boy.state = "KnockOut"
    /\ ev = <<Ev("Update")>>
    /\ hist.by = "KnockOut"
    /\ hist.n > FALLING_FRAMES

\* C3 as stated: the frame counter of an Idle character never equals
\* IDLE_FRAMES.
C3_Original == boy.state = "Idle" => frame < IDLE_FRAMES

\* C3 amended: the frame counter of an Idle character stays within
\* 0..IDLE_FRAMES, the limit included; an Update adds one below the limit and
\* wraps to 0 from the limit.
C3_Amended ==
    /\ [](boy.state = "Idle" => frame \in 0..IDLE_FRAMES)
    /\ [][boy.state = "Idle" /\ Received(Ev("Update"))
            => boy'.context.frame = IF frame = IDLE_FRAMES THEN 0 ELSE frame + 1]_vars

C3_Witness ==
    /\ boy.state = "Idle"
    /\ hist.n = IDLE_FRAMES + 1
    /\ frame = 0

\* C4: an Idle character stays at (STARTING_POINT, FLOOR) after every tick
\* while gravity raises its vertical velocity up to the terminal velocity.
C4_IdleInPlace ==
    boy.state = "Idle" =>
        /\ pos = Point(STARTING_POINT, FLOOR)
        /\ vel = Point(0, Min(hist.n * GRAVITY, TERMINAL_VELOCITY))

C4_Witness ==
    /\ boy.state = "Idle"
    /\ hist.n > TERMINAL_VELOCITY
    /\ vel.y = TERMINAL_VELOCITY
    /\ pos.y = FLOOR

\* a Running character on the floor received Jump, and only Updates since
JumpedFromFloor == hist.by = "Jump" /\ hist.from = "Running" /\ hist.floor

\* C5 as stated: once the jump from the floor has landed the character is
\* Running with velocity (the horizontal velocity before the jump, 0).
C5_Original ==
    JumpedFromFloor /\ hist.done >= 1 =>
        /\ boy.state = "Running"
        /\ vel = Point(hist.vx, 0)

\* C5 amended: the jump from the floor completes exactly once, when the
\* character is back on the floor, and it is then Running with velocity
\* (the horizontal velocity before the jump, TERMINAL_VELOCITY): landing
\* leaves the vertical velocity as gravity made it.
C5_Amended ==
    JumpedFromFloor =>
        /\ hist.done <= 1
        /\ hist.done = 0 => boy.state = "Jumping" /\ (hist.n > 0 => pos.y < FLOOR)
        /\ hist.done = 1 =>
              /\ boy.state = "Running"
              /\ pos.y = FLOOR
              /\ vel = Point(hist.vx, TERMINAL_VELOCITY)
        /\ hist.n = MaxTicks => hist.done = 1

C5_Witness ==
    /\ JumpedFromFloor
    /\ hist.done = 1
    /\ boy.state = "Running"
    /\ frame = 0

\* C6: a fresh slide stays Sliding for SLIDING_FRAMES - 1 ticks and becomes
\* Running with frame 0 on the SLIDING_FRAMES-th tick.
C6_SlideCompletes ==
    hist.by = "Slide" =>
        /\ hist.n < SLIDING_FRAMES =>
              boy.state = "Sliding" /\ frame = hist.n /\ hist.done = 0
        /\ hist.n = SLIDING_FRAMES =>
              boy.state = "Running" /\ frame = 0 /\ hist.done = 1
        /\ hist.n > SLIDING_FRAMES => boy.state = "Running" /\ hist.done = 1

C6_Witness ==
    /\ hist.by = "Slide"
    /\ hist.n = SLIDING_FRAMES
    /\ boy.state = "Running"

\* C7: a fresh fall stays Falling for FALLING_FRAMES - 1 ticks, becomes
\* KnockOut on the FALLING_FRAMES-th tick and stays KnockOut ever after.
C7_FallCompletes ==
    hist.by = "KnockOut" =>
        /\ hist.n < FALLING_FRAMES => boy.state = "Falling" /\ hist.done = 0
        /\ hist.n >= FALLING_FRAMES => boy.state = "KnockOut" /\ hist.done = 1

C7_Witness ==
    /\ hist.by = "KnockOut"
    /\ hist.n = MaxTicks
    /\ boy.state = "KnockOut"

\* the game as initialize or Walk::reset leaves it, no key held
FreshReady ==
    /\ phase = "Ready"
    /\ boy = Idle_new
    /\ hist = hist_new
    /\ keystate = {}

\* C8: one update of a fresh game with no key held leaves the phase Ready and
\* the character Idle at (STARTING_POINT, FLOOR) with frame 1.
C8_FirstUpdate ==
    [][FreshReady /\ hist' # hist =>
          /\ phase' = "Ready"
          /\ boy'.state = "Idle"
          /\ boy'.context.frame = 1
          /\ boy'.context.position = Point(STARTING_POINT, FLOOR)]_vars

C8_Witness ==
    /\ phase = "Ready"
    /\ keystate = {}
    /\ hist = [hist_new EXCEPT !.n = 1]
    /\ frame = 1

\* the character was knocked out by a direct call of RedHatBoy::knock_out
KnockedOutDirectly == hist.by = "KnockOut" /\ hist.direct

\* C9 as stated: the update that follows a direct knock-out in phase Walking
\* ends in phase GameOver.
C9_Original ==
    [][phase = "Walking" /\ KnockedOutDirectly /\ hist.n = 0 /\ hist'.n = 1
          => phase' = "GameOver"]_vars

\* C9 amended: after a direct knock-out in phase Walking the character is
\* Falling and the phase stays Walking for FALLING_FRAMES - 1 updates; the
\* FALLING_FRAMES-th update ends in GameOver with the new-game button drawn
\* and nothing queued in its receiver.
C9_Amended ==
    /\ [](KnockedOutDirectly =>
            /\ hist.n < FALLING_FRAMES => phase = "Walking" /\ boy.state = "Falling"
            /\ hist.n >= FALLING_FRAMES =>
                  /\ phase = "GameOver"
                  /\ boy.state = "KnockOut"
                  /\ hist.n = FALLING_FRAMES
                  /\ ui = <<"new_game">>)
    /\ [][phase = "Walking" /\ phase' = "GameOver" => new_game_event' = 0]_vars

C9_Witness ==
    /\ KnockedOutDirectly
    /\ phase = "GameOver"
    /\ new_game_event = 0
    /\ ev # <<>>

\* C10: an update in phase Ready dispatches one Update to the character; with
\* ArrowRight held it then dispatches Run and the phase becomes Walking,
\* otherwise the phase stays Ready.
C10_ReadyUpdate ==
    [][phase = "Ready" /\ keystate' = keystate =>
          /\ boy.state = "Idle"
          /\ IF "ArrowRight" \in keystate
               THEN /\ ev' = <<Ev("Update"), Ev("Run")>>
                    /\ phase' = "Walking"
                    /\ boy'.state = "Running"
                    /\ boy'.context.frame = 0
                    /\ boy'.context.velocity.x = RUNNING_SPEED
               ELSE /\ ev' = <<Ev("Update")>>
                    /\ phase' = "Ready"
                    /\ boy'.state = "Idle"
                    /\ boy'.context.frame =
                          IF frame = IDLE_FRAMES THEN 0 ELSE frame + 1]_vars

C10_Witness ==
    /\ phase = "Walking"
    /\ ev = <<Ev("Update"), Ev("Run")>>
    /\ boy.state = "Running"

\* C11: an update in phase Walking ends in phase GameOver exactly when the
\* character is in the terminal KnockOut state at the end of the tick;
\* otherwise the phase stays Walking, and it never becomes Ready.
C11_GameOverIffKnockedOut ==
    [][phase = "Walking" =>
          /\ phase' \in {"Walking", "GameOver"}
          /\ phase' = "GameOver" <=> boy'.state = "KnockOut"]_vars

C11_Witness ==
    /\ phase = "GameOver"
    /\ boy.state = "KnockOut"
    /\ hist.by = "KnockOut"
    /\ ~hist.direct
    /\ ev # <<>>

\* a step of GameOver's update: the poll of the new-game receiver
GameOverPoll ==
    /\ phase = "GameOver"
    /\ keystate' = keystate
    /\ new_game_event' <= new_game_event

\* C12: GameOver's update with an activation pending goes to Ready with the
\* walk reset: a fresh Idle character at (STARTING_POINT, FLOOR), frame 0,
\* velocity (0, 0), the obstacles of the initial segment at offset 0 and the
\* timeline at their rightmost edge; with none pending the phase stays
\* GameOver and character, obstacles, backgrounds and timeline are unchanged.
C12_NewGame ==
    [][GameOverPoll =>
          IF new_game_event > 0
            THEN /\ phase' = "Ready"
                 /\ boy'.state = "Idle"
                 /\ boy'.context.frame = 0
                 /\ boy'.context.position = Point(STARTING_POINT, FLOOR)
                 /\ boy'.context.velocity = Point(0, 0)
                 /\ obstacles' = stone_and_platform(0)
                 /\ timeline' = rightmost(obstacles')
            ELSE /\ phase' = "GameOver"
                 /\ UNCHANGED <<boy, obstacles, backgrounds, timeline>>]_vars

C12_Witness ==
    /\ phase = "Ready"
    /\ ev = <<>>
    /\ boy = Idle_new
    /\ obstacles = stone_and_platform(0)
    /\ backgrounds[2].position.x # background.width

\* C13: no click on the new-game button is lost: every click adds one
\* activation to the receiver's queue, nothing but the poll takes one out,
\* and a poll that finds an activation queued goes to Ready.
C13_NoClickLost ==
    /\ [][new_game_event' > new_game_event =>
            phase' = "GameOver" /\ new_game_event' = new_game_event + 1]_vars
    /\ [][phase = "GameOver" /\ phase' = "GameOver" =>
            new_game_event' >= new_game_event]_vars
    /\ [][GameOverPoll /\ new_game_event > 0 => phase' = "Ready"]_vars

C13_Witness ==
    /\ phase = "Ready"
    /\ new_game_event = 0
    /\ hist = hist_new
    /\ ev = <<>>
    /\ backgrounds[1].position.x < 0

\* C14: the new-game button is the one child of the UI container exactly
\* while the phase is GameOver; in Ready and Walking the container is empty.
C14_ButtonShown == ui = IF phase = "GameOver" THEN <<"new_game">> ELSE <<>>

C14_Witness ==
    /\ phase = "Ready"
    /\ ui = <<>>
    /\ boy.state = "Idle"
    /\ timeline = rightmost(stone_and_platform(0))
    /\ backgrounds[1].position.x # 0

\* the unit cells of the grid that lie inside a rectangle
Cells(r) ==
    {Point(x, y) : x \in r.position.x..(right(r) - 1),
                   y \in r.position.y..(bottom(r) - 1)}

\* one rectangle lies fully to the left, right, above or below the other,
\* touching it along an edge at most
Apart(a, b) ==
    \/ right(a) <= b.position.x
    \/ right(b) <= a.position.x
    \/ bottom(a) <= b.position.y
    \/ bottom(b) <= a.position.y

\* C15: intersects is symmetric, holds of two rectangles whose interiors
\* overlap, and fails of two rectangles one of which lies fully to the left,
\* right, above or below the other, also when they touch along an edge.
C15_Intersects ==
    rect_ret # <<>> =>
        /\ rect_ret[1] = rect_ret[2]
        /\ Cells(rect_args[1]) \cap Cells(rect_args[2]) # {} => rect_ret[1]
        /\ Apart(rect_args[1], rect_args[2]) => ~rect_ret[1]

\* two rectangles of positive size that touch along an edge
C15_Witness ==
    /\ rect_ret = <<FALSE, FALSE>>
    /\ rect_args[1].width > 0 /\ rect_args[1].height > 0
    /\ rect_args[2].width > 0 /\ rect_args[2].height > 0
    /\ right(rect_args[1]) = rect_args[2].position.x
    /\ rect_args[1].position.y = rect_args[2].position.y

\* a step of Walking's update (the keys change only between updates)
WalkingTick == phase = "Walking" /\ keystate' = keystate

\* the obstacles whose right edge is right of the origin
Live == {i \in 1..Len(obstacles) : Obstacle_right(obstacles[i]) > 0}

\* C16: a Walking tick keeps exactly the obstacles whose right() is > 0
\* before the tick's move, in their order, and moves each by the scroll
\* velocity; so an obstacle moved to right() = 0 is in the sequence after
\* that tick and is dropped by the next one.
C16_Culling ==
    [][WalkingTick =>
          /\ Len(obstacles') = Cardinality(Live)
                + (IF timeline < TIMELINE_MINIMUM THEN 2 ELSE 0)
          /\ \A i \in Live :
                obstacles'[Cardinality({j \in Live : j <= i})]
                  = move_horizontally(obstacles[i], -boy.context.velocity.x)]_vars

\* a platform moved to right() = 0 is still in the sequence
C16_Witness ==
    /\ phase = "Walking"
    /\ \E i \in 1..Len(obstacles) :
          /\ obstacles[i].kind = "Platform"
          /\ Obstacle_right(obstacles[i]) = 0

\* C17 as stated: in a Walking tick each background tile is moved by the
\* scroll velocity, the negative of the character's horizontal speed, unless
\* it is put behind the other tile, and every live obstacle is moved by that
\* same velocity.
C17_ScrollTogether ==
    [][WalkingTick =>
          LET velocity == -boy.context.velocity.x
          IN  /\ \A i \in 1..2 :
                    \/ backgrounds'[i].position.x
                          = backgrounds[i].position.x + velocity
                    \/ backgrounds'[i].position.x = right(backgrounds'[3 - i])
              /\ \A i \in Live :
                    obstacles'[Cardinality({j \in Live : j <= i})]
                      = move_horizontally(obstacles[i], velocity)]_vars

\* one tile starts where the other ends
Tiled == \E i \in 1..2 : backgrounds[3 - i].position.x = right(backgrounds[i])

\* C18: the two background tiles always tile seamlessly, one starting at the
\* other's right edge, and a tile is put behind the other only in a tick
\* whose move takes its own right edge past the origin.
C18_Seamless ==
    /\ []Tiled
    /\ [][\A i \in 1..2 :
            backgrounds'[i].position.x > backgrounds[i].position.x =>
              /\ phase = "Walking"
              /\ right(backgrounds[i]) - boy.context.velocity.x < 0
              /\ backgrounds'[i].position.x = right(backgrounds'[3 - i])]_vars

\* the first tile has been put behind the second
C18_Witness ==
    /\ phase = "Walking"
    /\ backgrounds[1].position.x = right(backgrounds[2])
    /\ backgrounds[2].position.x <= 0

\* the character of a Walking tick after the tick's Jump (Space held) and
\* Update, before any collision check
Ticked ==
    LET jumped == IF "Space" \in keystate
                    THEN Silent(transition(boy, Ev("Jump"), TRUE)) ELSE boy
    IN  Silent(transition(jumped, Ev("Update"), TRUE))

TickedEvents ==
    IF "Space" \in keystate THEN <<Ev("Jump"), Ev("Update")>> ELSE <<Ev("Update")>>

\* the one obstacle of the drawn situation as the tick moves it
Moved == move_horizontally(obstacles[1], -Ticked.context.velocity.x)

\* the boxes of the moved platform that the ticked character's box overlaps
Hits ==
    {i \in 1..Len(Moved.bounding_boxes) :
        ~Apart(bounding_box(Ticked), Moved.bounding_boxes[i])}

\* C19: Platform's collision check looks at the first box, in sequence
\* order, that the character's bounding box intersects: a character moving
\* down (velocity.y > 0) from above the platform's anchor (position.y less
\* than the anchor's y) receives Land(top of that box), any other receives
\* KnockOut; with no box intersected it receives nothing; the platform is
\* left as the move made it.
C19_PlatformCheck ==
    [][ev = <<>> /\ Len(obstacles) = 1 /\ obstacles[1].kind = "Platform" =>
          /\ obstacles' = <<Moved>>
          /\ IF Hits = {}
                THEN ev' = TickedEvents /\ boy' = Ticked
                ELSE LET first == CHOOSE i \in Hits : \A j \in Hits : i <= j
                     IN  IF /\ Ticked.context.velocity.y > 0
                            /\ Ticked.context.position.y < Moved.position.y
                           THEN ev' = Append(TickedEvents,
                                             Land(Moved.bounding_boxes[first].position.y))
                           ELSE ev' = Append(TickedEvents, Ev("KnockOut"))]_vars

\* the character landed on a first box whose top is not the anchor's y,
\* while a later box was intersected too
C19_Witness ==
    /\ Len(obstacles) = 1
    /\ obstacles[1].kind = "Platform"
    /\ ev # <<>>
    /\ ev[Len(ev)].type = "Land"
    /\ ev[Len(ev)].position = obstacles[1].bounding_boxes[1].position.y
    /\ ev[Len(ev)].position # obstacles[1].position.y
    /\ boy.state = "Running"

\* C20: Barrier's collision check sends KnockOut whenever the character's
\* bounding box intersects the barrier's image box, whatever the character's
\* velocity and height, and nothing otherwise; a Running, Jumping or Sliding
\* character that overlaps the barrier is Falling afterwards.
C20_BarrierCheck ==
    [][ev = <<>> /\ Len(obstacles) = 1 /\ obstacles[1].kind = "Barrier" =>
          /\ obstacles' = <<Moved>>
          /\ IF Apart(bounding_box(Ticked), Moved.image)
                THEN ev' = TickedEvents /\ boy' = Ticked
                ELSE /\ ev' = Append(TickedEvents, Ev("KnockOut"))
                     /\ Ticked.state \in {"Running", "Jumping", "Sliding"}
                           => boy'.state = "Falling"]_vars

\* a character in the air, moving up, was knocked out by a barrier
C20_Witness ==
    /\ Len(obstacles) = 1
    /\ obstacles[1].kind = "Barrier"
    /\ ev = <<Ev("Jump"), Ev("Update"), Ev("KnockOut")>>
    /\ boy.state = "Falling"
    /\ boy.context.position.y < FLOOR

\* the obstacles a Walking tick appended after the live ones
Appended == SubSeq(obstacles', Cardinality(Live) + 1, Len(obstacles'))

\* C21: a tick that generates a segment places one of the two layouts at
\* the timeline it found plus OBSTACLE_BUFFER, after the obstacles already
\* there, which keep their order, and sets the timeline to the greatest
\* right() of the obstacles it appended, which is greater than the timeline
\* it found.
C21_NextSegment ==
    [][WalkingTick /\ timeline < TIMELINE_MINIMUM =>
          /\ Appended \in {stone_and_platform(timeline + OBSTACLE_BUFFER),
                            platform_and_stone(timeline + OBSTACLE_BUFFER)}
          /\ \A i \in Live :
                obstacles'[Cardinality({j \in Live : j <= i})]
                  = move_horizontally(obstacles[i], -boy.context.velocity.x)
          /\ \A i \in 1..Len(Appended) : Obstacle_right(Appended[i]) <= timeline'
          /\ \E i \in 1..Len(Appended) : Obstacle_right(Appended[i]) = timeline'
          /\ timeline' > timeline]_vars

\* the platform-first layout was appended to the first two obstacles
C21_Witness ==
    /\ phase = "Walking"
    /\ Len(obstacles) = 4
    /\ obstacles[3].kind = "Platform"
    /\ timeline = Obstacle_right(obstacles[3])
    /\ timeline > TIMELINE_MINIMUM

\* C22: a Walking tick generates one segment when it finds the timeline
\* below TIMELINE_MINIMUM and none otherwise; without generation the
\* obstacle sequence gains no element and the timeline changes by the scroll
\* velocity.  In Ready and GameOver no segment is generated: obstacles and
\* timeline stay, or are replaced by those of a reset walk.
C22_GenerationOnce ==
    [][/\ WalkingTick =>
            IF timeline < TIMELINE_MINIMUM
              THEN Len(obstacles') = Cardinality(Live) + 2
              ELSE /\ Len(obstacles') = Cardinality(Live)
                   /\ timeline' = timeline - boy.context.velocity.x
       /\ phase = "Ready" => UNCHANGED <<obstacles, timeline>>
       /\ phase = "GameOver" =>
            \/ UNCHANGED <<obstacles, timeline>>
            \/ /\ phase' = "Ready"
               /\ obstacles' = stone_and_platform(0)
               /\ timeline' = rightmost(obstacles')]_vars

\* a tick without generation has scrolled the timeline to the minimum
C22_Witness ==
    /\ phase = "Walking"
    /\ timeline = TIMELINE_MINIMUM
    /\ Len(obstacles) = 4
    /\ boy.context.velocity.x = RUNNING_SPEED

\* a frame callback returns
CallbackEnd == run.pc = "loop" /\ run'.pc = "idle"

\* C23 (as claimed; the code breaks it): a frame callback adds the elapsed
\* time to the accumulator, calls update once for every whole step the
\* accumulator then holds, floor(accumulated / step) times, leaves less than
\* one step, and calls draw once, after the updates.
C23_WholeSteps ==
    [][CallbackEnd =>
        /\ run'.calls = [i \in 1..(run.added \div FRAME_SIZE) |-> "update"] \o <<"draw">>
        /\ game_loop'.accumulated_delta < FRAME_SIZE]_vars

\* GameLoop::start returns
Started == run.started = "new" /\ run'.started # "new"

\* C24: initialize fails on a game that is already initialized, and fails
\* without an instance when an asset load fails; GameLoop::start then returns
\* the error before it requests a frame: no callback runs, update and draw
\* are never called.
C24_InitializeFails ==
    /\ [][Started =>
            /\ machine => /\ run'.started = "failed"
                          /\ run'.error \in {"Error: Game is already initialized!",
                                             "prepare_input failed"}
                          /\ ~run'.instance
            /\ run'.error = "asset load failed" => /\ run'.started = "failed"
                                                   /\ ~run'.instance
                                                   /\ ~machine'
            /\ run'.started = "running" <=> run'.error = "none"]_vars
    /\ [][run.started = "failed" => run'.started = "failed"]_vars
    /\ [](run.started # "running" =>
            /\ run.pc = "idle" /\ run.frames = 0 /\ run.calls = <<>>
            /\ canvas = <<>>
            /\ phase = "Ready" /\ boy = Idle_new /\ hist = hist_new /\ ev = <<>>)

C24_Witness ==
    /\ run.started = "failed"
    /\ machine
    /\ run.error = "Error: Game is already initialized!"

\* C25: in every phase, a draw of an initialized game clears the canvas,
\* then draws the two backgrounds, then the character, then every obstacle
\* in sequence order; a draw of a game never initialized only clears.
C25_DrawOrder ==
    canvas # <<>> =>
        /\ canvas[1].op = "clear"
        /\ canvas[1].at = new_from_x_y(0, 0, 600, 600)
        /\ IF machine
             THEN /\ Len(canvas) = 4 + Len(obstacles)
                  /\ \A i \in 2..Len(canvas) : canvas[i].op # "clear"
                  /\ \A i \in 1..2 :
                        /\ canvas[1 + i].of = <<"background", i>>
                        /\ canvas[1 + i].at.position = backgrounds[i].position
                  /\ canvas[4].of = <<"boy">> \o frame_name(boy)
                  /\ canvas[4].at = destination_box(boy)
                  /\ \A i \in 1..Len(obstacles) :
                        /\ canvas[4 + i].of = <<"obstacle", i>>
                        /\ canvas[4 + i].at.position =
                              IF obstacles[i].kind = "Barrier"
                                THEN obstacles[i].image.position
                                ELSE obstacles[i].position
             ELSE Len(canvas) = 1

C25_Witness ==
    /\ canvas # <<>>
    /\ machine
    /\ phase = "GameOver"
    /\ Len(obstacles) > 2

\* C26: the vertical velocity of the character stays within
\* JUMP_SPEED..TERMINAL_VELOCITY; an Update adds GRAVITY to it below
\* TERMINAL_VELOCITY and leaves it alone otherwise, so no tick lowers it.
C26_VerticalVelocity ==
    /\ [](vel.y >= JUMP_SPEED /\ vel.y <= TERMINAL_VELOCITY)
    /\ [][Received(Ev("Update")) =>
            /\ vel.y < TERMINAL_VELOCITY => boy'.context.velocity.y = vel.y + GRAVITY
            /\ vel.y >= TERMINAL_VELOCITY => boy'.context.velocity.y = vel.y
            /\ boy'.context.velocity.y >= vel.y]_vars

C26_Witness ==
    /\ boy.state = "Jumping"
    /\ ev = <<Ev("Update")>>
    /\ vel.y = JUMP_SPEED + GRAVITY

HandlesUpdate == boy.state \in {"Idle", "Running", "Jumping", "Sliding", "Falling"}

\* C27: right after an Update of an Idle, Running, Jumping, Sliding or
\* Falling character position.y is at most FLOOR, wherever the character was
\* and however fast it moved before; an Update never changes position.x.
C27_FloorClamp ==
    [][Received(Ev("Update")) =>
          /\ HandlesUpdate => boy'.context.position.y <= FLOOR
          /\ boy'.context.position.x = pos.x]_vars

C27_Witness ==
    /\ ev = <<Ev("Update")>>
    /\ ~hist.floor
    /\ boy.state = "Falling"
    /\ vel.y = JUMP_SPEED + GRAVITY
    /\ pos.y = FLOOR

\* C28: Land(y) turns a Running, Jumping or Sliding character into Running
\* with frame 0 and position.y = y - PLAYER_HEIGHT and leaves position.x and
\* the velocity alone; a Jumping character whose tick brings it to the floor
\* or past it becomes Running at exactly FLOOR, and stays Jumping on a tick
\* that leaves it above the floor.
C28_Land ==
    [][/\ \A y \in LandPositions :
            Received(Land(y)) /\ boy.state \in {"Running", "Jumping", "Sliding"} =>
                /\ boy'.state = "Running"
                /\ boy'.context.frame = 0
                /\ boy'.context.position = Point(pos.x, y - PLAYER_HEIGHT)
                /\ boy'.context.velocity = vel
       /\ Received(Ev("Update")) /\ boy.state = "Jumping" =>
            LET vy == IF vel.y < TERMINAL_VELOCITY THEN vel.y + GRAVITY ELSE vel.y
            IN  IF pos.y + vy >= FLOOR
                  THEN /\ boy'.state = "Running"
                       /\ boy'.context.frame = 0
                       /\ boy'.context.position = Point(pos.x, FLOOR)
                  ELSE /\ boy'.state = "Jumping"
                       /\ boy'.context.position = Point(pos.x, pos.y + vy)]_vars

C28_Witness ==
    /\ ev = <<Land(LandTop)>>
    /\ hist.from = "Jumping"
    /\ boy.state = "Running"
    /\ pos.y = LandTop - PLAYER_HEIGHT
    /\ vel.y < 0

\* C29: Jump turns a Running character into Jumping with frame 0 and
\* velocity.y = JUMP_SPEED and asks once for the jump sound; the character
\* is the same whether the playback succeeds or fails.  No other pair of
\* state and event asks for the sound.
C29_JumpSound ==
    [][\A e \in Event \cup {Land(y) : y \in LandPositions} :
          Received(e) =>
            IF boy.state = "Running" /\ e.type = "Jump"
              THEN /\ sound' \in {"played", "failed"}
                   /\ boy' = St("Jumping", [boy.context EXCEPT !.frame = 0,
                                                               !.velocity.y = JUMP_SPEED])
              ELSE sound' = "none"]_vars

C29_Witness ==
    /\ ev = <<Ev("Jump")>>
    /\ sound = "failed"
    /\ boy.state = "Jumping"
    /\ frame = 0
    /\ vel = Point(RUNNING_SPEED, JUMP_SPEED)

C31_PhaseAndCharacter ==
    /\ phase = "Ready" => boy.state = "Idle"
    /\ phase = "Walking" => boy.state \in {"Running", "Jumping", "Sliding", "Falling"}
    /\ phase = "GameOver" => boy.state = "KnockOut"

C31_Witness ==
    /\ phase = "Walking"
    /\ boy.state = "Falling"
    /\ frame = FALLING_FRAMES - 1
    /\ ev = <<Ev("Update")>>

\* C32: whatever keys are held and whatever is clicked, no update of the
\* game dispatches Slide, and the character of the game is never Sliding.
C32_NeverSliding ==
    /\ [](boy.state # "Sliding")
    /\ [][\A i \in 1..Len(ev') : ev'[i].type # "Slide"]_vars

C32_Witness ==
    /\ phase = "Walking"
    /\ keystate = {"ArrowDown"}
    /\ boy.state = "Running"
    /\ ev = <<Ev("Update")>>
    /\ frame > 2

\* C33 (as claimed; the code breaks it for the background tiles): a Falling
\* or knocked-out character has horizontal velocity 0, so a Walking tick of
\* a Falling character leaves both background tiles and every obstacle it
\* keeps where they are; the horizontal velocity of the character is always
\* 0 or RUNNING_SPEED.
C33_StandStill ==
    /\ [](boy.state \in {"Falling", "KnockOut"} => vel.x = 0)
    /\ [](vel.x \in {0, RUNNING_SPEED})
    /\ [][WalkingTick /\ boy.state \in {"Falling", "KnockOut"} =>
            /\ \A i \in 1..2 : backgrounds'[i].position.x = backgrounds[i].position.x
            /\ \A i \in Live :
                  obstacles'[Cardinality({j \in Live : j <= i})] = obstacles[i]]_vars

\* the character was made Falling by the collision check of a Walking tick
KnockedOutByObstacle == hist.by = "KnockOut" /\ ~hist.direct

\* C34: after the collision check of a Walking tick has made the character
\* Falling, the phase is Walking after each of the next FALLING_FRAMES - 1
\* updates and GameOver after the FALLING_FRAMES-th, whatever keys are held
\* and whatever the character collides with while it falls.
C34_FallToGameOver ==
    /\ [](KnockedOutByObstacle =>
            /\ hist.n <= FALLING_FRAMES
            /\ hist.n < FALLING_FRAMES <=> phase = "Walking"
            /\ hist.n = FALLING_FRAMES <=> phase = "GameOver")
    /\ [][KnockedOutByObstacle /\ WalkingTick /\ hist.n = FALLING_FRAMES - 1 =>
            phase' = "GameOver"]_vars

C34_Witness ==
    /\ KnockedOutByObstacle
    /\ phase = "GameOver"
    /\ hist.n = FALLING_FRAMES
    /\ ev = <<Ev("Jump"), Ev("Update"), Ev("KnockOut")>>

\* C35: a game that initialize returned holds its machine, one of the three
\* phase variants, after every update, and the assertion that ends update
\* never fails on it; the first update of a game that was never initialized
\* fails that assertion.
C35_MachinePresent ==
    /\ [](machine => /\ phase \in {"Ready", "Walking", "GameOver"}
                     /\ run.error = "none")
    /\ [][machine => machine']_vars
    /\ [](~machine /\ run.calls # <<>> =>
            run.error = "assertion failed: self.machine.is_some()")

C35_Witness ==
    /\ ~machine
    /\ run.calls = <<"update">>
    /\ run.error = "assertion failed: self.machine.is_some()"

\* the places in a sequence of obstacles that hold an obstacle of this kind
OfKind(obs, kind) == {i \in 1..Len(obs) : obs[i].kind = kind}

\* C36: right() of a barrier is 250 wherever the barrier is, so the retain
\* pass of a Walking tick removes platforms that have scrolled past the left
\* edge and never a barrier; the number of barriers only falls when the walk
\* is reset.
C36_BarriersStay ==
    /\ [](\A i \in OfKind(obstacles, "Barrier") : Obstacle_right(obstacles[i]) = 250)
    /\ [][WalkingTick =>
            LET generated == IF timeline < TIMELINE_MINIMUM THEN 1 ELSE 0
            IN  /\ Cardinality(OfKind(obstacles', "Barrier"))
                      = Cardinality(OfKind(obstacles, "Barrier")) + generated
                /\ Cardinality(OfKind(obstacles', "Platform"))
                      = Cardinality(OfKind(obstacles, "Platform") \cap Live) + generated]_vars
    /\ [][Cardinality(OfKind(obstacles', "Barrier"))
              < Cardinality(OfKind(obstacles, "Barrier"))
            => phase = "GameOver" /\ phase' = "Ready"]_vars

C36_Witness ==
    /\ phase = "Walking"
    /\ Len(obstacles) >= 3
    /\ obstacles[1].kind = "Barrier"
    /\ right(obstacles[1].image) < 0
    /\ obstacles[2].kind = "Platform"
    /\ obstacles[3].kind = "Barrier"

\* the frame limit the Update of a state passes to the context
FrameLimit(state) ==
    CASE state = "Idle"    -> IDLE_FRAMES
      [] state = "Running" -> RUNNING_FRAMES
      [] state = "Sliding" -> SLIDING_FRAMES
      [] state = "Jumping" -> JUMPING_FRAMES
      [] OTHER             -> FALLING_FRAMES

\* C37: the frame counter never exceeds the frame limit of the state the
\* character is in, since every change of state resets it to 0, except
\* Falling to KnockOut, which keeps it; the sprite index frame / 3 + 1 is
\* between 1 and 10.
C37_FrameWithinLimit ==
    /\ [](frame \in 0..FrameLimit(boy.state))
    /\ [](frame_name(boy)[2] \in 1..10)
    /\ [][boy'.state # boy.state =>
            IF boy.state = "Falling"
              THEN boy'.state = "KnockOut" /\ boy'.context.frame = FALLING_FRAMES
              ELSE boy'.context.frame = 0]_vars

C37_Witness ==
    /\ boy.state = "KnockOut"
    /\ frame = FALLING_FRAMES
    /\ frame_name(boy) = <<"Dead", 10>>
====
